---- MODULE Spec2Model ----
(***************************************************************************)
(* State-machine model of idrac_exporter.py: the HTTP handler, the host    *)
(* registry `hosts`, the RedfishAPI objects with their metric sinks, and   *)
(* the Redfish calls they issue.  Texts are sequences of string tokens.    *)
(***************************************************************************)
EXTENDS Integers, Sequences, FiniteSets, TLC

\* ------------------------------------------------------------------ bounds
MaxRequests == 3
MaxQueue == 1
MaxCalls == 4
MaxMembers == 3

\* ----------------------------------------------------------- input domains
DefaultKey == "default"
Targets == {"bmc1", "default"}
LowerWords == {"metrics", "health"}
\* the local UTC offset time.mktime applies, looked up at each call
Zones == {3600}
Clock == {7200}

Paths ==
    { <<"/">>, <<"/", "health">>, <<"/", "metrics">>,
      <<"/", "metrics", "?target=">> }
    \cup { <<"/", "metrics", "?target=", t>> : t \in Targets }

\* ------------------------------------------------------------ small helpers
\* the value None of metrics_add: no token sequence
None == <<>>
TokenNone == <<"None">>
NoGroup == [some |-> FALSE, s |-> ""]
Group(s) == [some |-> TRUE, s |-> s]

RECURSIVE Flatten(_)
Flatten(ss) == IF ss = <<>> THEN <<>> ELSE Head(ss) \o Flatten(Tail(ss))

RECURSIVE Join(_, _)
Join(ss, sep) ==
    IF ss = <<>> THEN <<>>
    ELSE IF Len(ss) = 1 THEN Head(ss)
    ELSE Head(ss) \o <<sep>> \o Join(Tail(ss), sep)

Has(doc, f) == f \in DOMAIN doc

\* The number of leading steps that are ok: the statements run before the
\* first one that raises.
RECURSIVE OkPrefix(_)
OkPrefix(steps) ==
    IF steps = <<>> \/ ~Head(steps).ok THEN 0 ELSE 1 + OkPrefix(Tail(steps))

\* --------------------------------------------------------------- startup
encode_token(username, password) == <<"b64", username, ":", password>>

ConfigEntry(k) ==
    [ username |-> "root", password |-> k,
      token |-> encode_token("root", k), host |-> 0, valid |-> FALSE ]

\* the hosts of the configuration file: bmc1 alone, the default entry alone
\* (bmc1 is then seeded from it), or both
Configs ==
    { [k \in ks |-> ConfigEntry(k)] :
        ks \in {{"bmc1"}, {DefaultKey}, {"bmc1", DefaultKey}} }

\* ------------------------------------------------------------- RedfishAPI
RedfishAPI(server) ==
    [ server |-> server, baseurl |-> <<"https://", server, "/redfish/v1">>,
      token |-> TokenNone, metrics |-> <<>> ]

\* get with the status code never looked at
ErrorOf_none(code) == 0

\* get: lines 39-41, the error indicator of a status code
ErrorOf(code) == IF code = 200 THEN 0 ELSE code

\* get: the statements after session.get raise when the call timed out and
\* when the body is not JSON (result.json()), whatever the status is
GetRaises(ans) == ans.kind = "timeout" \/ ~ans.json

metrics_clear == <<>>

\* a render that hands the buffer over and leaves the sink empty
RenderSink_drain(metrics) == <<>>

\* metrics_get, lines 50-51: the sink after the call, which assigns nothing
RenderSink(metrics) == metrics

metrics_get(metrics) == Join(metrics, "\n") \o <<"\n">>

\* a label is a pair <<key, value>>, the value a sequence of tokens
ArgText(kv) == <<kv[1], "=\"">> \o kv[2] \o <<"\"">>

FormatArgs(args) ==
    IF args # <<>>
    THEN <<"{">> \o Join([i \in 1..Len(args) |-> ArgText(args[i])], ",") \o <<"}">>
    ELSE <<>>

FormatValue(value) == IF value = None THEN <<"NaN">> ELSE value

MetricLine(name, args, value) ==
    <<"idrac_", name>> \o FormatArgs(args) \o <<" ">> \o FormatValue(value)

\* a sink that puts the new record first
metrics_add_front(metrics, name, args, value) ==
    <<MetricLine(name, args, value)>> \o metrics

metrics_add(metrics, name, args, value) ==
    Append(metrics, MetricLine(name, args, value))

\* int(float(text)*1024**4/10**9) for a whole number of GiB.  1024^4/10^9 is
\* 2^31/5^9 = 2 * (549 + 1476199/1953125), which keeps the products in range.
MemoryBytes(gib) == 1098 * gib + (2 * gib * 1476199) \div 1953125

\* the reading divided with // : the decimal digit is lost
Tenths_int(reading) == <<ToString(reading \div 10)>>

\* float(reading)/10.0 printed by %s : one decimal digit
Tenths(reading) ==
    LET m == IF reading < 0 THEN 0 - reading ELSE reading
    IN  (IF reading < 0 THEN <<"-">> ELSE <<>>)
            \o <<ToString(m \div 10), ".", ToString(m % 10)>>

\* str.strip('.') removes the periods at both ends
RECURSIVE LStrip(_)
LStrip(s) == IF s # <<>> /\ Head(s) = "." THEN LStrip(Tail(s)) ELSE s

RECURSIVE RStrip(_)
RStrip(s) ==
    IF s # <<>> /\ s[Len(s)] = "." THEN RStrip(SubSeq(s, 1, Len(s) - 1)) ELSE s

Strip(s) == RStrip(LStrip(s))

\* timetuple() keeps the wall-clock fields of the entry's own offset and
\* mktime() reads them as local time
Mktime(created, zone) == (created.epoch + created.offset) - zone

SelAge(created, now, zone) == now - Mktime(created, zone)

\* ------------------------------------------------------ upstream documents
GoodSystem ==
    [ PowerState |-> "On", Status |-> [Health |-> "OK"], IndicatorLED |-> "Off",
      MemorySummary |-> [TotalSystemMemoryGiB |-> 16],
      ProcessorSummary |-> [Model |-> "Xeon", Count |-> 2],
      BiosVersion |-> "2.1" ]

\* a system resource without IndicatorLED and what follows it
PartialSystem == [ PowerState |-> "Off", Status |-> [Health |-> "Critical"] ]

SystemDocs == {GoodSystem, PartialSystem}

Sensor(name, type, reading) ==
    [ ElementName |-> name, DeviceID |-> name, EnabledState |-> "Enabled",
      SensorType |-> type, CurrentReading |-> reading ]

\* the controller lists the fan twice
GoodSensors ==
    [ Members |-> << Sensor("cpu", "Temperature", 423),
                     Sensor("psu", "Voltage", 12),
                     Sensor("fan", "Tachometer", 4800),
                     Sensor("fan", "Tachometer", 4800) >> ]

\* the second entry has no CurrentReading
PartialSensors ==
    [ Members |-> << Sensor("cpu", "Temperature", 423),
                     [ ElementName |-> "fan", DeviceID |-> "fan",
                       EnabledState |-> "Disabled", SensorType |-> "Tachometer" ] >> ]

SensorDocs == {GoodSensors}

GoodSel ==
    [ Members |-> << [ Id |-> "1", Message |-> <<"fan failed", ".">>,
                       SensorType |-> "Fan", Severity |-> "Critical",
                       Created |-> [epoch |-> 3600, offset |-> 0] ] >> ]

\* a log whose entry has no Created
PartialSel ==
    [ Members |-> << [ Id |-> "1", Message |-> <<"fan failed", ".">>,
                       SensorType |-> "Fan", Severity |-> "Critical" ] >> ]

SelDocs == {GoodSel}

HttpCodes == {200, 401}

Answers(docs) ==
    { [kind |-> "timeout", code |-> 0, json |-> FALSE, doc |-> d] : d \in docs }
    \cup { [kind |-> "http", code |-> c, json |-> j, doc |-> d] :
             c \in HttpCodes, j \in BOOLEAN, d \in docs }

\* ------------------------------------------------------------- collectors
\* Each collector is a sequence of steps; a step is ok when its statements
\* find the fields they read, and emits at most one record.
Step(ok, emit, name, args, value) ==
    [ok |-> ok, emit |-> emit, name |-> name, args |-> args, value |-> value]

Raise == Step(FALSE, FALSE, "", <<>>, None)

RECURSIVE AddSteps(_, _, _)
AddSteps(metrics, steps, n) ==
    IF n = 0 THEN metrics
    ELSE LET s == Head(steps)
             m == IF s.emit THEN metrics_add(metrics, s.name, s.args, s.value)
                  ELSE metrics
         IN  AddSteps(m, Tail(steps), n - 1)

\* the sink after the steps that ran, and whether one of them raised
RunSteps(metrics, steps) ==
    LET n == OkPrefix(steps)
    IN  [metrics |-> AddSteps(metrics, steps, n), raised |-> n < Len(steps)]

\* power-on read as the indicator LED is: 0 only for "Off"
PowerOnValue_notOff(state) == IF state = "Off" THEN <<"0">> ELSE <<"1">>

\* line 84
PowerOnValue(state) == IF state = "On" THEN <<"1">> ELSE <<"0">>

BasicsSteps(data) ==
    << IF Has(data, "PowerState")
       THEN Step(TRUE, TRUE, "power_on", <<>>, PowerOnValue(data.PowerState))
       ELSE Raise,
       IF Has(data, "Status") /\ Has(data.Status, "Health")
       THEN Step(TRUE, TRUE, "health_ok", << <<"status", <<data.Status.Health>> >> >>,
                 IF data.Status.Health = "OK" THEN <<"1">> ELSE <<"0">>)
       ELSE Raise,
       IF Has(data, "IndicatorLED")
       THEN Step(TRUE, TRUE, "indicator_led_on", <<>>,
                 IF data.IndicatorLED = "Off" THEN <<"0">> ELSE <<"1">>)
       ELSE Raise,
       IF Has(data, "MemorySummary") /\ Has(data.MemorySummary, "TotalSystemMemoryGiB")
       THEN Step(TRUE, TRUE, "memory_size", <<>>,
                 <<ToString(MemoryBytes(data.MemorySummary.TotalSystemMemoryGiB))>>)
       ELSE Raise,
       IF Has(data, "ProcessorSummary") /\ Has(data.ProcessorSummary, "Model")
          /\ Has(data.ProcessorSummary, "Count")
       THEN Step(TRUE, TRUE, "cpu_count",
                 << <<"model", <<data.ProcessorSummary.Model>> >> >>,
                 <<ToString(data.ProcessorSummary.Count)>>)
       ELSE Raise,
       IF Has(data, "BiosVersion")
       THEN Step(TRUE, TRUE, "bios_version",
                 << <<"version", <<data.BiosVersion>> >> >>, None)
       ELSE Raise >>

SensorArgs(entry) ==
    << <<"name", <<entry.ElementName>> >>, <<"id", <<entry.DeviceID>> >>,
       <<"enabled", <<IF entry.EnabledState = "Enabled" THEN "1" ELSE "0">> >> >>

SensorStep(entry) ==
    IF ~(Has(entry, "ElementName") /\ Has(entry, "DeviceID")
         /\ Has(entry, "EnabledState") /\ Has(entry, "SensorType"))
    THEN Raise
    ELSE IF entry.SensorType = "Temperature"
    THEN IF Has(entry, "CurrentReading")
         THEN Step(TRUE, TRUE, "sensors_temperature", SensorArgs(entry),
                   Tenths(entry.CurrentReading))
         ELSE Raise
    ELSE IF entry.SensorType = "Tachometer"
    THEN IF Has(entry, "CurrentReading")
         THEN Step(TRUE, TRUE, "sensors_tachometer", SensorArgs(entry),
                   <<ToString(entry.CurrentReading)>>)
         ELSE Raise
    ELSE Step(TRUE, FALSE, "", <<>>, None)

\* data.get('Members') is None when the key is missing, and the loop raises
SensorsSteps(data) ==
    IF Has(data, "Members")
    THEN [i \in 1..Len(data.Members) |-> SensorStep(data.Members[i])]
    ELSE <<Raise>>

SelStep(entry, now, zone) ==
    IF Has(entry, "Id") /\ Has(entry, "Message") /\ Has(entry, "SensorType")
       /\ Has(entry, "Severity") /\ Has(entry, "Created")
    THEN Step(TRUE, TRUE, "sel_entry",
              << <<"id", <<entry.Id>> >>, <<"message", Strip(entry.Message)>>,
                 <<"component", <<entry.SensorType>> >>,
                 <<"severity", <<entry.Severity>> >> >>,
              <<ToString(SelAge(entry.Created, now, zone))>>)
    ELSE Raise

SelSteps(data, now, zone) ==
    IF Has(data, "Members")
    THEN [i \in 1..Len(data.Members) |-> SelStep(data.Members[i], now, zone)]
    ELSE <<Raise>>

\* ------------------------------------------------------------------ state
VARIABLES
    queue,      \* connections accepted by the listening socket, not yet served
    pc,         \* where the one serving thread is
    cur,        \* the locals of the request being served
    hosts,      \* the module-level registry `hosts`
    sessions,   \* the RedfishAPI objects created so far, by creation order
    wire,       \* per RedfishAPI object: the GETs issued through its session
    arrived,    \* number of requests received so far
    seen,       \* the pairs <<target, value info.get('valid') returned>>
    raced,      \* targets with two first-time requests in flight together
    io          \* the arguments and the result of a function applied on its
                \* own, in the specifications of single functions

vars == <<queue, pc, cur, hosts, sessions, wire, arrived, seen, raced, io>>

\* no function is being applied on its own
NoIo == [fn |-> "none"]

Collectors == {"basics", "sensors", "sel"}

Blank ==
    [ path |-> <<>>, b |-> "", p |-> NoGroup, status |-> 0, metrics |-> <<>>,
      api |-> 0, obs |-> "none", invoked |-> {}, non200 |-> {},
      added |-> [c \in Collectors |-> 0], pass |-> <<>> ]

\* re.match('/([a-z]+)(\?target=(.*))?', path): groups 1 and 3
Match(path) ==
    IF Len(path) >= 2 /\ path[1] = "/" /\ path[2] \in LowerWords
    THEN [ ok |-> TRUE, b |-> path[2],
           p |-> IF Len(path) >= 3 /\ path[3] = "?target="
                 THEN Group(IF Len(path) >= 4 THEN path[4] ELSE "")
                 ELSE NoGroup ]
    ELSE [ok |-> FALSE, b |-> "", p |-> NoGroup]

\* `p is None` in place of `not p`: an empty target counts as a target
Falsy_none(p) == ~p.some

\* `not p`
Falsy(p) == ~p.some \/ p.s = ""

StatusFor(b, p) ==
    IF b = "metrics" THEN (IF Falsy(p) THEN 400 ELSE 200) ELSE 404

ExceptStatus == 500

\* the target a path asks collect_metrics for, "" when it asks for none
TargetOf(path) ==
    LET m == Match(path)
    IN  IF m.ok /\ StatusFor(m.b, m.p) = 200 THEN m.p.s ELSE ""

\* a registry entry that is probed again while its Session is invalid
NeedsSession_retry(info) == info.host = 0 \/ ~info.valid

\* line 144: 'host' not in info
NeedsSession(info) == info.host = 0

\* a registry entry that counts as valid as soon as it holds a Session
IsValid_probed(info) == info.host # 0

\* line 151: info.get('valid')
IsValid(info) == info.host # 0 /\ info.valid

ServerIdle == pc = "idle"

Blocked == pc \in {"probe", "basics", "sensors", "sel"}

FirstTime(t) == t \notin DOMAIN hosts \/ hosts[t].host = 0

InFlight(t) ==
    \/ \E i \in 1..Len(queue) : TargetOf(queue[i]) = t
    \/ pc \notin {"idle", "handle_error"} /\ TargetOf(cur.path) = t

Init ==
    /\ queue = <<>>
    /\ pc = "idle"
    /\ cur = Blank
    /\ hosts \in Configs
    /\ sessions = <<>>
    /\ wire = <<>>
    /\ arrived = 0
    /\ seen = {}
    /\ raced = {}
    /\ io = NoIo

\* a client connects and sends GET path
Arrive(path) ==
    /\ arrived < MaxRequests
    /\ Len(queue) < MaxQueue
    /\ queue' = Append(queue, path)
    /\ arrived' = arrived + 1
    /\ raced' = LET t == TargetOf(path)
                IN  IF t # "" /\ FirstTime(t) /\ InFlight(t)
                    THEN raced \cup {t} ELSE raced
    /\ UNCHANGED <<pc, cur, hosts, sessions, wire, seen, io>>

\* serve_forever hands the next connection to do_GET, which runs up to the
\* choice of the status
do_GET ==
    /\ ServerIdle
    /\ queue # <<>>
    /\ queue' = Tail(queue)
    /\ LET path == Head(queue)
           m == Match(path)
           status == StatusFor(m.b, m.p)
       IN  IF ~m.ok
           THEN /\ pc' = "handle_error"
                /\ cur' = [Blank EXCEPT !.path = path]
           ELSE /\ pc' = IF status = 200 THEN "resolve" ELSE "send"
                /\ cur' = [Blank EXCEPT !.path = path, !.b = m.b, !.p = m.p,
                                        !.status = status]
    /\ UNCHANGED <<hosts, sessions, wire, arrived, seen, raced, io>>

\* p is None: p.group raises out of do_GET and the connection is closed
\* with nothing written
handle_error ==
    /\ pc = "handle_error"
    /\ pc' = "idle"
    /\ cur' = Blank
    /\ UNCHANGED <<queue, hosts, sessions, wire, arrived, seen, raced, io>>

\* a pass that starts on the sink as the last pass left it
PassStart_keep(metrics) == metrics

\* collect_metrics, line 122: the sink a pass starts on
PassStart(metrics) == metrics_clear

\* what lines 151-155 do with the entry: start the pass on the cached
\* RedfishAPI (metrics_clear, then the GET of collect_basics) or raise
Dispatch(t, hs, ss, ws) ==
    LET info == hs[t]
        i == info.host
    IN  /\ hosts' = hs
        /\ seen' = seen \cup {<<t, IsValid(info)>>}
        /\ IF IsValid(info)
           THEN /\ sessions' = [ss EXCEPT ![i].metrics = PassStart(@)]
                /\ wire' = [ws EXCEPT ![i].gets = @ + 1]
                /\ pc' = "basics"
                /\ cur' = [cur EXCEPT !.api = i, !.obs = "valid",
                                      !.invoked = {"basics"}]
           ELSE /\ sessions' = ss
                /\ wire' = ws
                /\ pc' = "send"
                /\ cur' = [cur EXCEPT !.obs = "invalid", !.status = ExceptStatus]

\* collect_metrics(host) up to its first blocking call
collect_metrics ==
    /\ pc = "resolve"
    /\ LET t == cur.p.s
       IN  IF t \notin DOMAIN hosts /\ DefaultKey \notin DOMAIN hosts
              THEN \* hosts['default'] raises KeyError
                   /\ pc' = "send"
                   /\ cur' = [cur EXCEPT !.status = ExceptStatus]
                   /\ UNCHANGED <<hosts, sessions, wire, seen>>
              ELSE LET hs == [k \in DOMAIN hosts \cup {t} |->
                                IF k \in DOMAIN hosts THEN hosts[k]
                                ELSE hosts[DefaultKey]]
                       info == hs[t]
                   IN  IF NeedsSession(info)
                       THEN /\ sessions' = Append(sessions,
                                  [RedfishAPI(t) EXCEPT !.token = info.token])
                            /\ wire' = Append(wire,
                                  [probes |-> 1, gets |-> 0, result |-> "none"])
                            /\ hosts' = hs
                            /\ pc' = "probe"
                            /\ cur' = [cur EXCEPT !.api = Len(sessions) + 1]
                            /\ UNCHANGED seen
                       ELSE Dispatch(t, hs, sessions, wire)
    /\ UNCHANGED <<queue, arrived, raced, io>>

\* the probe GET of authenticate returns (or raises); lines 147-155 follow
authenticate ==
    /\ pc = "probe"
    /\ \E ans \in Answers({[Members |-> <<>>]}) :
         LET t == cur.p.s
             i == cur.api
             raised == GetRaises(ans)
             error == IF raised THEN 0 ELSE ErrorOf(ans.code)
             valid == ~raised /\ error = 0
             ss == IF ~raised /\ error # 0
                   THEN [sessions EXCEPT ![i].token = TokenNone] ELSE sessions
             ws == [wire EXCEPT ![i].result =
                      IF ans.kind = "timeout" \/ ~ans.json THEN "raise"
                      ELSE IF ans.code # 200 THEN "error" ELSE "ok"]
             hs == [hosts EXCEPT ![t].host = i, ![t].valid = valid]
         IN  Dispatch(t, hs, ss, ws)
    /\ UNCHANGED <<queue, arrived, raced, io>>

\* what the upstream answered to the collector's GET and the records the
\* collector appended, noted in the locals
Noted(name, ans, n, lines) ==
    [cur EXCEPT !.non200 = IF ans.kind = "http" /\ ans.code # 200
                           THEN @ \cup {name} ELSE @,
                !.added[name] = n,
                !.pass = @ \o lines]

\* a failure that also marks the entry invalid
Fail_evict(name, ans, ss, n, lines) ==
    /\ pc' = "send"
    /\ hosts' = [hosts EXCEPT ![cur.p.s].valid = FALSE]
    /\ sessions' = ss
    /\ wire' = wire
    /\ cur' = [Noted(name, ans, n, lines) EXCEPT !.status = ExceptStatus]

\* the except of do_GET: status 500, metrics still ""; the registry is
\* not touched
Fail(name, ans, ss, n, lines) ==
    /\ pc' = "send"
    /\ hosts' = hosts
    /\ sessions' = ss
    /\ wire' = wire
    /\ cur' = [Noted(name, ans, n, lines) EXCEPT !.status = ExceptStatus]

\* the collector returned: the next one issues its GET, or metrics_get
Proceed(name, ans, ss, n, lines) ==
    LET i == cur.api
    IN  /\ hosts' = hosts
        /\ sessions' = ss
        /\ IF name = "sel"
           THEN /\ pc' = "send"
                /\ wire' = wire
                /\ cur' = [Noted(name, ans, n, lines) EXCEPT
                             !.metrics = metrics_get(ss[i].metrics)]
           ELSE LET next == IF name = "basics" THEN "sensors" ELSE "sel"
                IN  /\ pc' = next
                    /\ wire' = [wire EXCEPT ![i].gets = @ + 1]
                    /\ cur' = [Noted(name, ans, n, lines) EXCEPT
                                 !.invoked = @ \cup {next}]

\* one collector from the return of its GET to its own return
Collector(name, ans, steps) ==
    LET i == cur.api
    IN  IF GetRaises(ans) THEN Fail(name, ans, sessions, 0, <<>>)
        ELSE IF ErrorOf(ans.code) # 0 THEN Proceed(name, ans, sessions, 0, <<>>)
        ELSE LET r == RunSteps(sessions[i].metrics, steps)
                 ss == [sessions EXCEPT ![i].metrics = r.metrics]
                 n == Len(r.metrics) - Len(sessions[i].metrics)
                 lines == RunSteps(<<>>, steps).metrics
             IN  IF r.raised THEN Fail(name, ans, ss, n, lines)
                 ELSE Proceed(name, ans, ss, n, lines)

collect_basics ==
    /\ pc = "basics"
    /\ \E ans \in Answers(SystemDocs) : Collector("basics", ans, BasicsSteps(ans.doc))
    /\ UNCHANGED <<queue, arrived, seen, raced, io>>

collect_sensors ==
    /\ pc = "sensors"
    /\ \E ans \in Answers(SensorDocs) : Collector("sensors", ans, SensorsSteps(ans.doc))
    /\ UNCHANGED <<queue, arrived, seen, raced, io>>

collect_sel ==
    /\ pc = "sel"
    /\ \E ans \in Answers(SelDocs), now \in Clock, zone \in Zones :
         Collector("sel", ans, SelSteps(ans.doc, now, zone))
    /\ UNCHANGED <<queue, arrived, seen, raced, io>>

\* send_response, the headers and the body
send_response ==
    /\ pc = "send"
    /\ pc' = "idle"
    /\ cur' = Blank
    /\ UNCHANGED <<queue, hosts, sessions, wire, arrived, seen, raced, io>>

Next ==
    \/ \E path \in Paths : Arrive(path)
    \/ do_GET
    \/ handle_error
    \/ collect_metrics
    \/ authenticate
    \/ collect_basics
    \/ collect_sensors
    \/ collect_sel
    \/ send_response

Spec == Init /\ [][Next]_vars

TypeOK ==
    /\ pc \in {"idle", "handle_error", "resolve", "probe", "basics", "sensors",
               "sel", "send"}
    /\ Len(queue) <= MaxQueue
    /\ Len(wire) = Len(sessions)

\* ------------------------------------------------- the sink on its own
\* A RedfishAPI object used through metrics_clear, metrics_add and
\* metrics_get only; io.ops lists the calls made so far.
SinkNames == {"power_on", "sel_entry"}

SinkArgs == { <<>>, << <<"id", <<"1">> >> >> }

SinkValues == { None, <<"1">> }

\* the server that holds no request, Session or call
Detached ==
    /\ queue = <<>>
    /\ pc = "idle"
    /\ cur = Blank
    /\ hosts = [k \in {DefaultKey} |-> ConfigEntry(k)]
    /\ sessions = <<>>
    /\ wire = <<>>
    /\ arrived = 0
    /\ seen = {}
    /\ raced = {}

InitSink ==
    /\ Detached
    /\ io = [fn |-> "sink", metrics |-> RedfishAPI("bmc1").metrics,
             text |-> <<>>, ops |-> <<>>]

SinkClear ==
    /\ io.fn = "sink"
    /\ Len(io.ops) < MaxCalls
    /\ io' = [io EXCEPT !.metrics = metrics_clear, !.ops = Append(@, "clear")]
    /\ UNCHANGED <<queue, pc, cur, hosts, sessions, wire, arrived, seen, raced>>

SinkAdd ==
    /\ io.fn = "sink"
    /\ Len(io.ops) < MaxCalls
    /\ \E name \in SinkNames, args \in SinkArgs, value \in SinkValues :
         io' = [io EXCEPT !.metrics = metrics_add(@, name, args, value),
                          !.ops = Append(@, "add")]
    /\ UNCHANGED <<queue, pc, cur, hosts, sessions, wire, arrived, seen, raced>>

SinkRender ==
    /\ io.fn = "sink"
    /\ Len(io.ops) < MaxCalls
    /\ io' = [io EXCEPT !.text = metrics_get(io.metrics),
                        !.metrics = RenderSink(@),
                        !.ops = Append(@, "render")]
    /\ UNCHANGED <<queue, pc, cur, hosts, sessions, wire, arrived, seen, raced>>

NextSink ==
    \/ SinkClear
    \/ SinkAdd
    \/ SinkRender

SpecSink == InitSink /\ [][NextSink]_vars

\* ------------------------------------------- the collectors on their own
\* One collector applied to a document its GET fetched with status 200.
SeqsUpTo(S, n) == UNION { [1..k -> S] : k \in 0..n }

PowerStates == {"On", "Off", "PoweringOn", "on"}

BasicsInputs ==
    { [GoodSystem EXCEPT !.PowerState = state] : state \in PowerStates }
    \cup { PartialSystem, [Status |-> [Health |-> "OK"]] }

SensorEntries ==
    { Sensor("cpu", "Temperature", 423), Sensor("inlet", "Temperature", 0 - 5),
      Sensor("fan", "Tachometer", 4800), Sensor("psu", "Voltage", 12),
      [ ElementName |-> "fan", DeviceID |-> "fan", EnabledState |-> "Disabled",
        SensorType |-> "Tachometer" ] }

SensorsInputs == { [Members |-> ms] : ms \in SeqsUpTo(SensorEntries, MaxMembers) }

SelEpochs == {0, 3600}

SelOffsets == {0 - 18000, 0, 3600}

SelZones == {0 - 18000, 0, 3600}

SelClock == {3600, 7200}

SelInputs ==
    { [Members |-> << [GoodSel.Members[1] EXCEPT
                         !.Created = [epoch |-> e, offset |-> o]] >>] :
        e \in SelEpochs, o \in SelOffsets }

Call(fn, data, now, zone) ==
    [ fn |-> fn, data |-> data, now |-> now, zone |-> zone, done |-> FALSE,
      metrics |-> <<>>, raised |-> FALSE ]

InitCollectors ==
    /\ Detached
    /\ io \in { Call("collect_basics", d, 0, 0) : d \in BasicsInputs }
         \cup { Call("collect_sensors", d, 0, 0) : d \in SensorsInputs }
         \cup { Call("collect_sel", d, now, zone) :
                  d \in SelInputs, now \in SelClock, zone \in SelZones }

\* the call after the collector ran on a cleared sink up to its return or
\* its exception
Applied(steps) ==
    LET r == RunSteps(metrics_clear, steps)
    IN  [io EXCEPT !.done = TRUE, !.metrics = r.metrics, !.raised = r.raised]

ApplyBasics ==
    /\ io.fn = "collect_basics"
    /\ ~io.done
    /\ io' = Applied(BasicsSteps(io.data))
    /\ UNCHANGED <<queue, pc, cur, hosts, sessions, wire, arrived, seen, raced>>

ApplySensors ==
    /\ io.fn = "collect_sensors"
    /\ ~io.done
    /\ io' = Applied(SensorsSteps(io.data))
    /\ UNCHANGED <<queue, pc, cur, hosts, sessions, wire, arrived, seen, raced>>

ApplySel ==
    /\ io.fn = "collect_sel"
    /\ ~io.done
    /\ io' = Applied(SelSteps(io.data, io.now, io.zone))
    /\ UNCHANGED <<queue, pc, cur, hosts, sessions, wire, arrived, seen, raced>>

NextCollectors ==
    \/ ApplyBasics
    \/ ApplySensors
    \/ ApplySel

SpecCollectors == InitCollectors /\ [][NextCollectors]_vars

\* the collector GETs sent to the controller named t
RECURSIVE GetsUpTo(_, _)
GetsUpTo(t, n) ==
    IF n = 0 THEN 0
    ELSE GetsUpTo(t, n - 1) + (IF sessions[n].server = t THEN wire[n].gets ELSE 0)

GetsTo(t) == GetsUpTo(t, Len(sessions))

\* ------------------------------------------------------------ measurements
\* the probe GETs sent to the controller named t (the host of baseurl)
RECURSIVE ProbesUpTo(_, _)
ProbesUpTo(t, n) ==
    IF n = 0 THEN 0
    ELSE ProbesUpTo(t, n - 1) + (IF sessions[n].server = t THEN wire[n].probes ELSE 0)

ProbesTo(t) == ProbesUpTo(t, Len(sessions))

\* the RedfishAPI objects constructed for t
SessionsFor(t) == {i \in 1..Len(sessions) : sessions[i].server = t}

\* a probe sent to t raised or came back with an error status
ProbeFailed(t) ==
    \E i \in SessionsFor(t) : wire[i].result \in {"raise", "error"}

\* t is in the registry with a RedfishAPI object
Cached(t) == t \in DOMAIN hosts /\ hosts[t].host # 0

\* the registry holds the RedfishAPI object i with valid = False
MarkedInvalid(i) == \E t \in DOMAIN hosts : hosts[t].host = i /\ ~hosts[t].valid

\* t is configured, or is seeded from the default entry
HasCredential(t) == t \in DOMAIN hosts \/ DefaultKey \in DOMAIN hosts

\* the metrics path with no target, absent or empty
NoTarget(path) ==
    /\ Len(path) \in {2, 3}
    /\ path[1] = "/"
    /\ path[2] = "metrics"
    /\ Len(path) = 3 => path[3] = "?target="

\* ------------------------------------------------------------------ claims

\* C1: every target served on a valid Session has had exactly one probe GET
\* sent to it, however many requests were made, and no target is ever
\* probed twice.
C1_ExactlyOneProbe ==
    \A t \in Targets :
        /\ ProbesTo(t) <= 1
        /\ (Cached(t) /\ hosts[t].valid) => ProbesTo(t) = 1

\* C2: a request that reached the collectors on a valid Session ends with
\* all three collectors invoked and status 200, whatever a collector's GET
\* raised and whatever field its payload lacked.
C2_CollectorFailureAbsorbed ==
    (pc = "send" /\ cur.obs = "valid") =>
        (cur.status = 200 /\ cur.invoked = Collectors)

\* C3: when a collector's resource answered with a non-200 status, that
\* collector appended no record, the other collectors were all invoked and
\* the response is the successful one carrying their records.
C3_Non200Isolated ==
    (pc = "send" /\ cur.non200 # {}) =>
        /\ \A c \in cur.non200 : cur.added[c] = 0
        /\ cur.invoked = Collectors
        /\ cur.status = 200
        /\ cur.metrics = metrics_get(sessions[cur.api].metrics)

\* C4: every response to a request for a target whose probe failed, the
\* first and every later one, has status 500 and an empty body.
C4_InvalidRejected ==
    (pc = "send" /\ TargetOf(cur.path) # "" /\ ProbeFailed(TargetOf(cur.path))) =>
        (cur.status = 500 /\ cur.metrics = <<>>)

\* a later request for a target whose probe failed is about to be answered
C4_Witness ==
    /\ pc = "send"
    /\ ProbeFailed(TargetOf(cur.path))
    /\ cur.api = 0
    /\ cur.status = 500

\* C5: no step issues a GET through a RedfishAPI object that the registry
\* marks invalid, and a rejected request has invoked no collector.
C5_InvalidNeverCalls ==
    /\ [](cur.obs = "invalid" => cur.invoked = {})
    /\ [][\A i \in 1..Len(sessions) : MarkedInvalid(i) => wire'[i] = wire[i]]_vars

\* requests came in after a Session was marked invalid, and the one probe
\* is still the only call made through it
C5_Witness ==
    /\ arrived = MaxRequests
    /\ pc = "idle"
    /\ queue = <<>>
    /\ \E i \in 1..Len(sessions) :
         MarkedInvalid(i) /\ wire[i].probes = 1 /\ wire[i].gets = 0
    /\ \E t \in Targets : <<t, FALSE>> \in seen /\ Cardinality(SessionsFor(t)) = 1

\* C6: a cached entry's validity is the outcome of the one probe of its
\* RedfishAPI object (valid exactly when that probe returned no error), and
\* no step changes or replaces an entry that holds a RedfishAPI object.
C6_ValidityTerminal ==
    /\ [](\A t \in DOMAIN hosts :
            Cached(t) => /\ hosts[t].valid <=> (wire[hosts[t].host].result = "ok")
                         /\ wire[hosts[t].host].probes = 1)
    /\ [][\A t \in DOMAIN hosts :
            Cached(t) => (t \in DOMAIN hosts' /\ hosts'[t] = hosts[t])]_vars

\* a valid and an invalid Session are cached and a later request for the
\* invalid one has been handled
C6_Witness ==
    /\ \E t, u \in DOMAIN hosts :
         Cached(t) /\ hosts[t].valid /\ Cached(u) /\ ~hosts[u].valid
    /\ pc = "send"
    /\ cur.obs = "invalid"
    /\ cur.api = 0

\* C7: once two first-time requests for the same target, in flight together,
\* have both been answered, the controller has seen exactly one probe for
\* that target, one RedfishAPI object exists for it and both requests read
\* the same validity.
C7_RaceOneProbe ==
    \A t \in raced :
        (HasCredential(t) /\ ~InFlight(t)) =>
            /\ ProbesTo(t) = 1
            /\ Cardinality(SessionsFor(t)) = 1
            /\ Cardinality({v \in BOOLEAN : <<t, v>> \in seen}) = 1

\* C8: while the serving thread is blocked in a GET for one target, a
\* waiting request for another target can be started.
C8_OtherTargetCanStart ==
    (Blocked /\ \E i \in 1..Len(queue) :
                   TargetOf(queue[i]) \notin {"", TargetOf(cur.path)})
        => ENABLED do_GET

\* C9: no request ends without a response, and a response has status 200,
\* 400, 404 or 500 with a non-empty body only under 200.
C9_AlwaysAnswered ==
    /\ pc # "handle_error"
    /\ pc = "send" => /\ cur.status \in {200, 400, 404, 500}
                      /\ cur.metrics # <<>> => cur.status = 200

\* C10: a request for the metrics path with no target goes straight to the
\* response with status 400 and an empty body, and no step taken while it is
\* served changes the registry, the RedfishAPI objects or the calls issued.
C10_NoTargetRejected ==
    /\ []((pc # "idle" /\ NoTarget(cur.path)) =>
            (pc = "send" /\ cur.status = 400 /\ cur.metrics = <<>>))
    /\ [][(NoTarget(cur.path) \/ NoTarget(cur'.path)) =>
            (hosts' = hosts /\ sessions' = sessions /\ wire' = wire)]_vars

\* a request with an empty target is about to be answered, with Sessions
\* already in the registry
C10_Witness ==
    /\ pc = "send"
    /\ cur.path = <<"/", "metrics", "?target=">>
    /\ cur.status = 400
    /\ sessions # <<>>

\* C11: the text of a successful response is the rendering of exactly the
\* records this request's own pass appended, in the order it appended
\* them: nothing an earlier pass left in the sink is in it.
C11_TextIsOwnPass ==
    (pc = "send" /\ cur.status = 200) =>
        /\ sessions[cur.api].metrics = cur.pass
        /\ cur.metrics = Join(cur.pass, "\n") \o <<"\n">>

\* a pass succeeded on a Session whose earlier pass stopped in
\* collect_basics
C11_Witness ==
    /\ pc = "send"
    /\ cur.status = 200
    /\ cur.pass # <<>>
    /\ wire[cur.api].gets = 4

\* the step is a call of metrics_get
RenderStep ==
    /\ io.fn = "sink"
    /\ Len(io'.ops) > Len(io.ops)
    /\ io'.ops[Len(io'.ops)] = "render"

\* the last call made was metrics_get
AfterRender == io.ops # <<>> /\ io.ops[Len(io.ops)] = "render"

\* C12: a render leaves the sink as it was, and a render that follows a
\* render with no add or clear in between returns the same text.
C12_RenderIdempotent ==
    [][RenderStep => (io'.metrics = io.metrics
                      /\ (AfterRender => io'.text = io.text))]_vars

\* two renders in a row on a sink that holds records
C12_Witness ==
    /\ io.fn = "sink"
    /\ Len(io.ops) >= 3
    /\ io.ops[Len(io.ops)] = "render"
    /\ io.ops[Len(io.ops) - 1] = "render"
    /\ Len(io.metrics) >= 1
    /\ io.text # <<"\n">>

\* the last token of a record, its value
ValueOf(line) == line[Len(line)]

\* C13: the age emitted for an event-log entry is the current time minus
\* the entry's creation instant, whatever the offset of its timestamp and
\* the zone of the exporter.
C13_AgeIsElapsed ==
    (io.fn = "collect_sel" /\ io.done /\ ~io.raised) =>
        \A k \in 1..Len(io.metrics) :
            ValueOf(io.metrics[k])
                = ToString(io.now - io.data.Members[k].Created.epoch)

\* an entry that has the fields the sensors collector reads
Complete(entry) ==
    /\ Has(entry, "ElementName")
    /\ Has(entry, "DeviceID")
    /\ Has(entry, "EnabledState")
    /\ Has(entry, "SensorType")
    /\ Has(entry, "CurrentReading")

\* reading/10 as the text of the record
Tenth(reading) ==
    IF reading = 423 THEN <<"42", ".", "3">>
    ELSE IF reading = 0 - 5 THEN <<"-", "0", ".", "5">>
    ELSE <<"?">>

\* the names and values of the records of the entries, in their order
RECURSIVE SensorRecords(_)
SensorRecords(members) ==
    IF members = <<>> THEN <<>>
    ELSE LET entry == Head(members)
             rest == SensorRecords(Tail(members))
         IN  IF entry.SensorType = "Temperature"
             THEN << <<"sensors_temperature", Tenth(entry.CurrentReading)>> >> \o rest
             ELSE IF entry.SensorType = "Tachometer"
             THEN << <<"sensors_tachometer",
                       <<ToString(entry.CurrentReading)>> >> >> \o rest
             ELSE rest

\* the value of a record, the tokens after the blank
RECURSIVE ValueText(_)
ValueText(line) ==
    IF line = <<>> THEN <<>>
    ELSE IF Head(line) = " " THEN Tail(line)
    ELSE ValueText(Tail(line))

\* C14: on a collection of complete entries the sensors collector appends,
\* in the order of the entries, one record per Temperature entry (the
\* reading divided by 10) and per Tachometer entry (the reading), and none
\* for an entry of another type, which stops nothing after it.
C14_SensorRecords ==
    (io.fn = "collect_sensors" /\ io.done
     /\ \A k \in 1..Len(io.data.Members) : Complete(io.data.Members[k])) =>
        /\ ~io.raised
        /\ [k \in 1..Len(io.metrics) |->
              <<io.metrics[k][2], ValueText(io.metrics[k])>>]
             = SensorRecords(io.data.Members)

\* a Voltage entry is skipped and the Temperature entry after it is
\* recorded with 42.3
C14_Witness ==
    /\ io.fn = "collect_sensors"
    /\ io.done
    /\ Len(io.data.Members) = 3
    /\ \A k \in 1..3 : Complete(io.data.Members[k])
    /\ io.data.Members[1].SensorType = "Tachometer"
    /\ io.data.Members[2].SensorType = "Voltage"
    /\ io.data.Members[3].CurrentReading = 423
    /\ Len(io.metrics) = 2
    /\ ValueText(io.metrics[2]) = <<"42", ".", "3">>

\* C15: the first record of collect_basics is power_on, with value 1 when
\* PowerState is "On" and 0 for every other PowerState.
C15_PowerOn ==
    (io.fn = "collect_basics" /\ io.done /\ Has(io.data, "PowerState")) =>
        /\ Len(io.metrics) >= 1
        /\ io.metrics[1] = <<"idrac_", "power_on", " ",
                             IF io.data.PowerState = "On" THEN "1" ELSE "0">>

\* a system that is neither "On" nor "Off" is recorded as not powered on
C15_Witness ==
    /\ io.fn = "collect_basics"
    /\ io.done
    /\ ~io.raised
    /\ io.data.PowerState = "PoweringOn"
    /\ io.metrics[1] = <<"idrac_", "power_on", " ", "0">>

\* C16: a collector GET goes through a RedfishAPI object only after that
\* object's probe has returned without error, no collector GET is out while
\* a probe is, and no probe is sent to a controller that a collector GET
\* was sent to.
C16_ProbeFirst ==
    /\ [](\A i \in 1..Len(sessions) : wire[i].gets > 0 => wire[i].result = "ok")
    /\ [](pc = "probe" => /\ wire[cur.api].result = "none"
                          /\ GetsTo(sessions[cur.api].server) = 0)
    /\ [][\A t \in Targets : ProbesTo(t)' > ProbesTo(t) => GetsTo(t)' = 0]_vars

\* the first collector GET of a target is out, its probe answered
C16_Witness ==
    /\ pc = "basics"
    /\ wire[cur.api].probes = 1
    /\ wire[cur.api].result = "ok"
    /\ wire[cur.api].gets = 1
    /\ sessions[cur.api].server = "bmc1"

BasicsNames ==
    {"power_on", "health_ok", "indicator_led_on", "memory_size", "cpu_count",
     "bios_version"}

\* the collector a record comes from, by its name: 1 basics, 2 sensors,
\* 3 event log
Rank(line) ==
    IF line[2] \in BasicsNames THEN 1
    ELSE IF line[2] \in {"sensors_temperature", "sensors_tachometer"} THEN 2
    ELSE 3

\* the positions of the line ends of a text
LineEnds(text) == {i \in 1..Len(text) : text[i] = "\n"}

\* the position of the k-th line end, 0 for k = 0
LineEnd(text, k) ==
    IF k = 0 THEN 0
    ELSE CHOOSE i \in LineEnds(text) :
            Cardinality({j \in LineEnds(text) : j <= i}) = k

\* the lines of a text, each one ended by "\n"
SplitLines(text) ==
    [k \in 1..Cardinality(LineEnds(text)) |->
        SubSeq(text, LineEnd(text, k - 1) + 1, LineEnd(text, k) - 1)]

\* C17: sensors is invoked after basics and the event log after sensors;
\* the lines of a successful response are the appended records in their
\* order, as many as were appended, basics before sensors before event log.
C17_AppendOrder ==
    /\ pc = "basics" => cur.invoked = {"basics"}
    /\ pc = "sensors" => cur.invoked = {"basics", "sensors"}
    /\ pc = "sel" => cur.invoked = Collectors
    /\ (pc = "send" /\ cur.status = 200 /\ cur.pass # <<>>) =>
         LET lines == SplitLines(cur.metrics)
         IN  /\ cur.invoked = Collectors
             /\ lines = cur.pass
             /\ Len(lines) = cur.added["basics"] + cur.added["sensors"]
                                + cur.added["sel"]
             /\ \A j, k \in 1..Len(lines) : j < k => Rank(lines[j]) <= Rank(lines[k])

\* a response with records of the three collectors and the same record
\* twice
C17_Witness ==
    /\ pc = "send"
    /\ cur.status = 200
    /\ LET lines == SplitLines(cur.metrics)
       IN  /\ \A c \in Collectors : cur.added[c] > 0
           /\ \E j \in 1..Len(lines) - 1 : lines[j] = lines[j + 1]

\* C18: every cached RedfishAPI object was constructed for the target whose
\* entry holds it, no two entries hold the same object, the object serving
\* a request was constructed for the requested target, and the default
\* entry holds no object.
C18_OwnSession ==
    /\ \A t \in DOMAIN hosts : Cached(t) => sessions[hosts[t].host].server = t
    /\ \A t, u \in DOMAIN hosts :
         (t # u /\ Cached(t) /\ Cached(u)) => hosts[t].host # hosts[u].host
    /\ pc \in {"probe", "basics", "sensors", "sel"} =>
         sessions[cur.api].server = cur.p.s
    /\ DefaultKey \in DOMAIN hosts => hosts[DefaultKey].host = 0

\* the step leaves the registry, the RedfishAPI objects' tokens and the
\* probes as they were
RegistryKept ==
    /\ hosts' = hosts
    /\ Len(sessions') = Len(sessions)
    /\ \A i \in 1..Len(sessions) :
         /\ wire'[i].probes = wire[i].probes
         /\ wire'[i].result = wire[i].result
         /\ sessions'[i].token = sessions[i].token

\* C19: no step of a collector, the failing one included, changes the
\* registry, creates a RedfishAPI object or sends a probe, and a request
\* that ran the collectors leaves its target cached and valid on the same
\* object.
C19_FailureKeepsRegistry ==
    /\ [][(pc \in {"basics", "sensors", "sel"}) => RegistryKept]_vars
    /\ []((pc = "send" /\ cur.obs = "valid") =>
            /\ Cached(cur.p.s)
            /\ IsValid(hosts[cur.p.s])
            /\ hosts[cur.p.s].host = cur.api)

\* a pass succeeds on the object whose earlier pass ended in a 500 in
\* collect_basics, with still one probe
C19_Witness ==
    /\ pc = "send"
    /\ cur.status = 200
    /\ cur.obs = "valid"
    /\ wire[cur.api].probes = 1
    /\ wire[cur.api].gets = 4
    /\ arrived >= 2
====
